---------------------------- MODULE Spec2Model ----------------------------
(***************************************************************************)
(* A model of the CineRate backend (src/main.py): the credential shim      *)
(* (hash_pwd, verify_pwd, make_token, check_token), the authentication     *)
(* dependency get_user, and the request handlers over the remote row       *)
(* store (users, ratings, watchlist).                                      *)
(*                                                                         *)
(* Strings are sequences of one-character strings.  A character of the     *)
(* form "U+FF1d" stands for the single Unicode code point FULLWIDTH DIGIT  *)
(* d, which Python's int() reads as the decimal digit d.                   *)
(***************************************************************************)
EXTENDS Integers, Sequences, FiniteSets, TLC

VARIABLES
    \* ---- token round trip (make_token / check_token) ----
    tk_phase,      \* "start" | "issued" | "checked"
    tk_uid,        \* the user id the token was made for
    tk_issued,     \* clock reading (ticks) at which make_token ran
    tk_clock,      \* the wall clock, in ticks of 1/Resolution second
    tk_token,      \* the token string the client presents
    tk_mutated,    \* TRUE once one character of the token was replaced
    tk_result,     \* what check_token returned at the last check
    \* ---- password round trip (hash_pwd / verify_pwd) ----
    pw_phase,      \* "start" | "stored" | "verified"
    pw_origin,     \* "none" | "hash_pwd" | "malformed"
    pw_pwd,        \* the password given to hash_pwd
    pw_stored,     \* the stored hash string
    pw_try,        \* the password given to verify_pwd
    pw_result,     \* "unset" | "True" | "False" | "ValueError"
    \* ---- the application: the row store and the requests in flight ----
    users,         \* table users, in rowid order: the row at index i has id i
    ratings,       \* table ratings, sorted by (user_id, tmdb_id)
    watchlist,     \* table watchlist, sorted by (user_id, tmdb_id)
    now,           \* the wall clock, in ticks of 1/Resolution second
    reqs,          \* per request slot: the handler's position and locals
    resp,          \* the response the last step sent, with its request; else NoResp
    client         \* the client that follows a script: the responses it has received

tkVars == <<tk_phase, tk_uid, tk_issued, tk_clock, tk_token, tk_mutated, tk_result>>
pwVars == <<pw_phase, pw_origin, pw_pwd, pw_stored, pw_try, pw_result>>
storeVars == <<users, ratings, watchlist>>
appVars == <<users, ratings, watchlist, now, reqs, resp, client>>
vars == <<tkVars, pwVars, appVars>>

---------------------------------------------------------------------------
(* Bounds of the model *)

\* clock ticks per second: the wall clock has sub-second resolution
Resolution == 2
\* longest password tried
MaxPwdLen == 2

(* Program constants *)

\* check_token: "if datetime.utcnow().timestamp() - ts > 86400"
TOKEN_TTL == 86400
\* make_token / check_token: hexdigest()[:16]
SIG_LEN == 16
\* hash_pwd: secrets.token_hex(16) is 2 * 16 hex characters
SALT_BYTES == 16
\* hashlib.sha256(...).hexdigest() is 64 hex characters
DIGEST_LEN == 64

---------------------------------------------------------------------------
(* Python values *)

None == [some |-> FALSE, val |-> 0]
Some(v) == [some |-> TRUE, val |-> v]

AsciiDigits == <<"0", "1", "2", "3", "4", "5", "6", "7", "8", "9">>
FullwidthDigits == <<"U+FF10", "U+FF11", "U+FF12", "U+FF13", "U+FF14",
                     "U+FF15", "U+FF16", "U+FF17", "U+FF18", "U+FF19">>
Range(s) == {s[i] : i \in DOMAIN s}
Whitespace == {" "}

\* str.__add__
Concat(s, t) == s \o t

\* str(int) / f"{n}" for an int n
RECURSIVE NatToStr(_)
NatToStr(n) ==
    IF n < 10 THEN <<AsciiDigits[n + 1]>>
    ELSE Append(NatToStr(n \div 10), AsciiDigits[(n % 10) + 1])
IntToStr(n) == IF n < 0 THEN <<"-">> \o NatToStr(-n) ELSE NatToStr(n)

\* str.split(sep) for a one-character separator: one part more than separators
SepPositions(s, sep) == {i \in DOMAIN s : s[i] = sep}
NthSep(s, sep, k) ==
    CHOOSE i \in SepPositions(s, sep) :
        Cardinality({j \in SepPositions(s, sep) : j < i}) = k - 1
Split(s, sep) ==
    LET n == Cardinality(SepPositions(s, sep)) IN
    [k \in 1..(n + 1) |->
        SubSeq(s, IF k = 1 THEN 1 ELSE NthSep(s, sep, k - 1) + 1,
                  IF k = n + 1 THEN Len(s) ELSE NthSep(s, sep, k) - 1)]

\* sep in s
Contains(s, c) == \E i \in DOMAIN s : s[i] = c

\* str.strip() as int() applies it before parsing
RECURSIVE LStrip(_)
LStrip(s) == IF s # <<>> /\ Head(s) \in Whitespace THEN LStrip(Tail(s)) ELSE s
RECURSIVE RStrip(_)
RStrip(s) ==
    IF s # <<>> /\ s[Len(s)] \in Whitespace THEN RStrip(SubSeq(s, 1, Len(s) - 1)) ELSE s
Strip(s) == RStrip(LStrip(s))

\* a decimal digit for int(): an ASCII digit or any other Unicode Nd character
IsDigit(c) == c \in Range(AsciiDigits) \/ c \in Range(FullwidthDigits)
DigitVal(c) ==
    IF c \in Range(AsciiDigits)
    THEN (CHOOSE i \in 1..10 : AsciiDigits[i] = c) - 1
    ELSE (CHOOSE i \in 1..10 : FullwidthDigits[i] = c) - 1

\* the digits of an int() literal: digits, single underscores only between digits
DigitsOk(d) ==
    /\ d # <<>>
    /\ \A i \in DOMAIN d : IsDigit(d[i]) \/ d[i] = "_"
    /\ IsDigit(d[1]) /\ IsDigit(d[Len(d)])
    /\ \A i \in 1..(Len(d) - 1) : ~(d[i] = "_" /\ d[i + 1] = "_")
RECURSIVE DigitsVal(_, _)
DigitsVal(d, acc) ==
    IF d = <<>> THEN acc
    ELSE IF Head(d) = "_" THEN DigitsVal(Tail(d), acc)
    ELSE DigitsVal(Tail(d), acc * 10 + DigitVal(Head(d)))

\* int(s) for a str s: Some(value), or None where Python raises ValueError
ParseInt(s) ==
    LET t == Strip(s)
        signed == t # <<>> /\ Head(t) \in {"+", "-"}
        d == IF signed THEN Tail(t) ELSE t
    IN  IF ~DigitsOk(d) THEN None
        ELSE IF signed /\ Head(t) = "-" THEN Some(-DigitsVal(d, 0))
        ELSE Some(DigitsVal(d, 0))

---------------------------------------------------------------------------
(* SHA-256, idealised as collision free on the messages of the model: the  *)
(* digest spells the message, one hex digit per character, padded with "f" *)
(* to 64 digits.  Every message the model hashes is shorter than 64        *)
(* characters over the alphabet of HexCode, and every pair the model       *)
(* compares after [:16] differs within its first 16 characters or not at   *)
(* all, so two digests agree exactly when their messages do.               *)

SECRET_KEY == <<"K">>

HexCode(c) ==
    CASE c \in Range(AsciiDigits) -> c
      [] c = ":" -> "a"
      [] c = "-" -> "b"
      [] c = "K" -> "c"
      [] c = "p" -> "d"
      [] c = "q" -> "e"
      [] OTHER -> "f"

\* s cut or padded with c to exactly n characters
PadRight(s, n, c) == [i \in 1..n |-> IF i <= Len(s) THEN s[i] ELSE c]

\* hashlib.sha256(msg.encode()).hexdigest()
Sha256Hex(msg) == PadRight([i \in DOMAIN msg |-> HexCode(msg[i])], DIGEST_LEN, "f")

---------------------------------------------------------------------------
(* Tokens: make_token and check_token.  clock is the wall clock in ticks;  *)
(* datetime.utcnow().timestamp() is clock / Resolution seconds.            *)

\* int(datetime.utcnow().timestamp())
IntTimestamp(clock) == clock \div Resolution

\* hashlib.sha256(f"{user_id}:{ts}:{settings.SECRET_KEY}".encode()).hexdigest()[:16]
Signature(user_id, ts) ==
    SubSeq(Sha256Hex(IntToStr(user_id) \o <<":">> \o IntToStr(ts) \o <<":">> \o SECRET_KEY),
           1, SIG_LEN)

\* the token for (user_id, ts): f"{user_id}:{ts}:{sig}"
TokenOf(user_id, ts) ==
    IntToStr(user_id) \o <<":">> \o IntToStr(ts) \o <<":">> \o Signature(user_id, ts)

make_token(user_id, clock) == TokenOf(user_id, IntTimestamp(clock))

\* timestamp() - ts > 86400, with timestamp() = clock / Resolution
Expired(ts, clock) == clock - ts * Resolution > TOKEN_TTL * Resolution

check_token(token, clock) ==
    LET parts == Split(token, ":") IN
    IF Len(parts) # 3 THEN None
    ELSE LET user_id == ParseInt(parts[1])
             ts == ParseInt(parts[2])
             sig == parts[3]
         IN  IF ~user_id.some \/ ~ts.some THEN None          \* ValueError, caught by except:
             ELSE IF Expired(ts.val, clock) THEN None
             ELSE IF sig # Signature(user_id.val, ts.val) THEN None
             ELSE Some(user_id.val)

---------------------------------------------------------------------------
(* Requests and responses.  A request slot holds one request in flight:    *)
(* pc is the store call (or upstream call) the handler is waiting on,      *)
(* since a handler runs without interruption between two awaits.           *)

Slots == {1, 2}

\* the fields of RegData, LoginData, RatingData, WatchlistData, ProfileUpdate and
\* the path parameter tmdb_id that the model tracks; "" is a falsy or absent value,
\* and so are the year 0 and the genres <<>>
NoArgs ==
    [username |-> "", password |-> <<>>, email |-> "", display_name |-> "",
     tmdb_id |-> 0, user_rating |-> 0, title |-> "",
     year |-> 0, genres |-> <<>>, media_type |-> ""]

\* the Authorization header: scheme "" when the header is missing
NoHeader == [scheme |-> "", credentials |-> <<>>]
Bearer(token) == [scheme |-> "Bearer", credentials |-> token]

\* the handler's parameter user before get_user has returned
NoUser == [id |-> 0, username |-> "", display_name |-> ""]

\* header: the Authorization header; checked: the clock reading at which get_user
\* ran check_token on it; uid: what check_token returned; user: the row get_user
\* returned; existing: the pre-check found a row; clean: no other request wrote
\* this request's row since its pre-check; reply: "ok", or how the gateway
\* answered the last store call of the request that failed; at: the position of
\* that call while pc is "failed"
IdleReq ==
    [pc |-> "idle", kind |-> "", header |-> NoHeader, checked |-> 0, args |-> NoArgs,
     uid |-> 0, user |-> NoUser, existing |-> FALSE, clean |-> TRUE,
     reply |-> "ok", at |-> ""]

NoResp == [req |-> IdleReq, status |-> 0, detail |-> "", body |-> <<>>]

\* no client follows a script
NoClient == [scripted |-> FALSE, seen |-> <<>>]
\* the slot that the requests of the scripted client occupy
ScriptSlot == 1

AppIdle ==
    /\ users = <<>> /\ ratings = <<>> /\ watchlist = <<>> /\ now = 0
    /\ reqs = [r \in Slots |-> IdleReq] /\ resp = NoResp /\ client = NoClient

---------------------------------------------------------------------------
(* Specification SpecToken: a token is made at some clock reading, the     *)
(* clock advances, one character of the token may be replaced, and the     *)
(* token is checked.                                                       *)

TokenUids == {1, 12}
IssueSeconds == {7, 12}
IssueClocks == {s * Resolution + f : s \in IssueSeconds, f \in 0..(Resolution - 1)}
\* check times, in ticks after the issue: at once, and around the 24-hour boundary
Delays == {0, 1} \cup {TOKEN_TTL * Resolution + k : k \in (-Resolution)..Resolution}
MutationChars ==
    Range(AsciiDigits) \cup Range(FullwidthDigits)
        \cup {"a", "b", "c", "d", "e", "f", ":", " ", "+", "-", "_", "x"}

TkIdle ==
    /\ tk_phase = "off" /\ tk_uid = 0 /\ tk_issued = 0 /\ tk_clock = 0
    /\ tk_token = <<>> /\ tk_mutated = FALSE /\ tk_result = None
PwIdle ==
    /\ pw_phase = "off" /\ pw_origin = "none" /\ pw_pwd = <<>>
    /\ pw_stored = <<>> /\ pw_try = <<>> /\ pw_result = "unset"

\* what the token steps leave alone
TkFrame == UNCHANGED <<pwVars, appVars>>
\* what the password steps leave alone
PwFrame == UNCHANGED <<tkVars, appVars>>

InitToken ==
    /\ tk_phase = "start"
    /\ tk_uid \in TokenUids
    /\ tk_clock \in IssueClocks
    /\ tk_issued = 0 /\ tk_token = <<>> /\ tk_mutated = FALSE /\ tk_result = None
    /\ PwIdle /\ AppIdle

\* the server issues the token (register / login call make_token)
TkMakeToken ==
    /\ tk_phase = "start"
    /\ tk_token' = make_token(tk_uid, tk_clock)
    /\ tk_issued' = tk_clock
    /\ tk_phase' = "issued"
    /\ UNCHANGED <<tk_uid, tk_clock, tk_mutated, tk_result>>
    /\ TkFrame

\* time passes
TkAdvance(d) ==
    /\ tk_phase \in {"issued", "checked"}
    /\ tk_issued + d > tk_clock
    /\ tk_clock' = tk_issued + d
    /\ tk_phase' = "issued"
    /\ UNCHANGED <<tk_uid, tk_issued, tk_token, tk_mutated, tk_result>>
    /\ TkFrame

\* one character position of the token is replaced by a different character
TkMutate(i, c) ==
    /\ tk_phase = "issued" /\ ~tk_mutated
    /\ i \in DOMAIN tk_token /\ tk_token[i] # c
    /\ tk_token' = [tk_token EXCEPT ![i] = c]
    /\ tk_mutated' = TRUE
    /\ UNCHANGED <<tk_phase, tk_uid, tk_issued, tk_clock, tk_result>>
    /\ TkFrame

\* the server checks the presented token
TkCheckToken ==
    /\ tk_phase = "issued"
    /\ tk_result' = check_token(tk_token, tk_clock)
    /\ tk_phase' = "checked"
    /\ UNCHANGED <<tk_uid, tk_issued, tk_clock, tk_token, tk_mutated>>
    /\ TkFrame

NextToken ==
    \/ TkMakeToken
    \/ \E d \in Delays : TkAdvance(d)
    \/ \E i \in DOMAIN tk_token, c \in MutationChars : TkMutate(i, c)
    \/ TkCheckToken

SpecToken == InitToken /\ [][NextToken]_vars

\* C1: for every user id u and issue time t, check_token of the token made for
\* u at t returns u at every check time up to the 24-hour boundary
\* (now - t <= 86400 s) and None at every check time after it (now - t > 86400 s).
C1_TokenRoundTrip ==
    (tk_phase = "checked" /\ ~tk_mutated) =>
        tk_result = IF tk_clock - tk_issued <= TOKEN_TTL * Resolution
                    THEN Some(tk_uid) ELSE None

\* C2: every string that differs from a made token in exactly one character
\* position is rejected by check_token: it returns None.
C2_MutationRejected ==
    (tk_phase = "checked" /\ tk_mutated) => tk_result = None

---------------------------------------------------------------------------
(* Passwords: hash_pwd and verify_pwd.  The results of verify_pwd are the  *)
(* strings "True" and "False", and "ValueError" where the call raises.     *)

\* f"{salt}${hashlib.sha256((pwd + salt).encode()).hexdigest()}", for the salt
\* that secrets.token_hex(16) generated
hash_pwd(pwd, salt) == salt \o <<"$">> \o Sha256Hex(Concat(pwd, salt))

\* a verify_pwd that accepts every password
verify_pwd_any(pwd, hashed) == "True"

\* verify_pwd with the two operands of the concatenation exchanged
verify_pwd_swapped(pwd, hashed) ==
    IF ~Contains(hashed, "$") THEN "False"
    ELSE LET parts == Split(hashed, "$") IN
         IF Len(parts) # 2 THEN "ValueError"
         ELSE IF Sha256Hex(Concat(parts[1], pwd)) = parts[2] THEN "True" ELSE "False"

verify_pwd(pwd, hashed) ==
    IF ~Contains(hashed, "$") THEN "False"
    ELSE LET parts == Split(hashed, "$") IN
         IF Len(parts) # 2 THEN "ValueError"     \* salt, h = hashed.split("$")
         ELSE IF Sha256Hex(Concat(pwd, parts[1])) = parts[2] THEN "True" ELSE "False"

---------------------------------------------------------------------------
(* Specification SpecPwd: a stored hash is produced by hash_pwd, or is a   *)
(* malformed value, and passwords are verified against it.                 *)

PwdChars == {"p", "q"}
RECURSIVE StringsUpTo(_, _)
StringsUpTo(chars, n) ==
    IF n = 0 THEN {<<>>}
    ELSE LET shorter == StringsUpTo(chars, n - 1)
         IN  shorter \cup {Append(s, c) : s \in shorter, c \in chars}
Passwords == StringsUpTo(PwdChars, MaxPwdLen)
\* token_hex(16): 32 hex characters
Salts == {PadRight(<<c, d>>, 2 * SALT_BYTES, "0") : c \in {"0", "1", "7"}, d \in {"0", "9"}}
MalformedHashes ==
    { <<>>, <<"0", "1">>,                                  \* no "$"
      <<"0", "$", "1", "$", "2">>, <<"$", "$">>,           \* more than one "$"
      <<"$">>, <<"$", "1">>, <<"$">> \o Sha256Hex(<<"p">>), \* empty salt
      <<"0", "$">> }                                       \* empty digest

InitPwd ==
    /\ pw_phase = "start" /\ pw_origin = "none" /\ pw_pwd = <<>>
    /\ pw_stored = <<>> /\ pw_try = <<>> /\ pw_result = "unset"
    /\ TkIdle /\ AppIdle

\* registration stores hash_pwd(password)
PwHashPwd(pwd, salt) ==
    /\ pw_phase = "start"
    /\ pw_pwd' = pwd
    /\ pw_stored' = hash_pwd(pwd, salt)
    /\ pw_origin' = "hash_pwd"
    /\ pw_phase' = "stored"
    /\ UNCHANGED <<pw_try, pw_result>>
    /\ PwFrame

\* the hashed_password column holds a value that hash_pwd did not produce
PwMalformed(h) ==
    /\ pw_phase = "start"
    /\ pw_stored' = h
    /\ pw_origin' = "malformed"
    /\ pw_phase' = "stored"
    /\ UNCHANGED <<pw_pwd, pw_try, pw_result>>
    /\ PwFrame

\* login verifies a password against the stored hash
PwVerifyPwd(pwd) ==
    /\ pw_phase \in {"stored", "verified"}
    /\ pw_try' = pwd
    /\ pw_result' = verify_pwd(pwd, pw_stored)
    /\ pw_phase' = "verified"
    /\ UNCHANGED <<pw_origin, pw_pwd, pw_stored>>
    /\ PwFrame

NextPwd ==
    \/ \E pwd \in Passwords, salt \in Salts : PwHashPwd(pwd, salt)
    \/ \E h \in MalformedHashes : PwMalformed(h)
    \/ \E pwd \in Passwords : PwVerifyPwd(pwd)

SpecPwd == InitPwd /\ [][NextPwd]_vars

\* C3: for every stored hash h = hash_pwd(p), with any generated salt,
\* verify_pwd(p, h) is true and verify_pwd(p2, h) is false for every p2 # p.
C3_PasswordRoundTrip ==
    (pw_phase = "verified" /\ pw_origin = "hash_pwd") =>
        pw_result = IF pw_try = pw_pwd THEN "True" ELSE "False"

\* C3's case: a password other than the hashed one was verified and refused
C3_Witness ==
    /\ pw_phase = "verified" /\ pw_origin = "hash_pwd"
    /\ pw_try # pw_pwd /\ pw_result = "False"

\* C4: verify_pwd fails closed: for every password and every malformed stored
\* hash it returns False as a value and does not raise.
C4_FailsClosed ==
    (pw_phase = "verified" /\ pw_origin = "malformed") => pw_result = "False"

---------------------------------------------------------------------------
(* The row store, as the tables that lifespan creates.  Every store call   *)
(* is one statement and its own commit.  An AUTOINCREMENT id is the row's  *)
(* index in users (the system never deletes a user); the ids of ratings    *)
(* and watchlist rows are not modelled, and as no statement of the program *)
(* depends on the order of their rows, the two tables are kept sorted by   *)
(* (user_id, tmdb_id): one representative of each table content.           *)

\* INSERT into ratings or watchlist: the row is added, behind the rows that sort
\* before it or with it
InsertRow(table, row) ==
    LET before == {i \in DOMAIN table :
                      \/ table[i].user_id < row.user_id
                      \/ table[i].user_id = row.user_id /\ table[i].tmdb_id <= row.tmdb_id}
        n == Cardinality(before)
    IN  SubSeq(table, 1, n) \o <<row>> \o SubSeq(table, n + 1, Len(table))

\* the least index of a non-empty set of indices: rows[0]
FirstIdx(S) == CHOOSE i \in S : \A j \in S : i <= j

\* SELECT id, username, display_name FROM users WHERE id = ?
SelectUserById(id) ==
    IF id \in DOMAIN users
    THEN <<[id |-> id, username |-> users[id].username,
            display_name |-> users[id].display_name]>>
    ELSE <<>>

\* the ids of SELECT ... FROM users WHERE username = ?
UserIdsByUsername(username) == {i \in DOMAIN users : users[i].username = username}

\* users: username TEXT UNIQUE NOT NULL, email TEXT UNIQUE
UsersUniqueViolated(row) ==
    \E i \in DOMAIN users :
        users[i].username = row.username \/ users[i].email = row.email

\* SELECT ... FROM table WHERE user_id = ? AND tmdb_id = ?
RowsOf(table, user_id, tmdb_id) ==
    SelectSeq(table, LAMBDA row : row.user_id = user_id /\ row.tmdb_id = tmdb_id)

\* SELECT ... FROM table WHERE user_id = ?
RowsOfUser(table, user_id) == SelectSeq(table, LAMBDA row : row.user_id = user_id)

\* SELECT ... FROM ratings WHERE user_id = ? AND tmdb_id = ?
RatingsOf(user_id, tmdb_id) == RowsOf(ratings, user_id, tmdb_id)

\* the SELECT of get_ratings without its WHERE clause
RatingsOfAllUsers(user_id) ==
    [i \in DOMAIN ratings |->
        [tmdb_id |-> ratings[i].tmdb_id, title |-> ratings[i].title,
         user_rating |-> ratings[i].user_rating, year |-> ratings[i].year,
         genres |-> ratings[i].genres, media_type |-> ratings[i].media_type]]

\* SELECT tmdb_id, title, year, user_rating, genres, media_type, ... FROM ratings
\* WHERE user_id = ?
\* (ORDER BY created_at DESC decides the order of the rows only; they are
\* returned in the order of the table here)
RatingsOfUser(user_id) ==
    [i \in DOMAIN RowsOfUser(ratings, user_id) |->
        [tmdb_id |-> RowsOfUser(ratings, user_id)[i].tmdb_id,
         title |-> RowsOfUser(ratings, user_id)[i].title,
         user_rating |-> RowsOfUser(ratings, user_id)[i].user_rating,
         year |-> RowsOfUser(ratings, user_id)[i].year,
         genres |-> RowsOfUser(ratings, user_id)[i].genres,
         media_type |-> RowsOfUser(ratings, user_id)[i].media_type]]

\* a ratings table created without its UNIQUE constraint
RatingsNoConstraint(row) == FALSE

\* ratings: UNIQUE(user_id, tmdb_id)
RatingsUniqueViolated(row) ==
    \E i \in DOMAIN ratings :
        ratings[i].user_id = row.user_id /\ ratings[i].tmdb_id = row.tmdb_id

\* UPDATE ratings SET user_rating = ?, comment = ?, media_type = ?, ...
\* WHERE user_id = ? AND tmdb_id = ?
UpdateRatings(user_id, tmdb_id, user_rating, media_type) ==
    [i \in DOMAIN ratings |->
        IF ratings[i].user_id = user_id /\ ratings[i].tmdb_id = tmdb_id
        THEN [ratings[i] EXCEPT !.user_rating = user_rating, !.media_type = media_type]
        ELSE ratings[i]]

\* a DELETE FROM ratings WHERE tmdb_id = ?
DeleteRatingsOfAllUsers(user_id, tmdb_id) ==
    SelectSeq(ratings, LAMBDA row : row.tmdb_id # tmdb_id)

\* DELETE FROM ratings WHERE user_id = ? AND tmdb_id = ?
DeleteRatings(user_id, tmdb_id) ==
    SelectSeq(ratings, LAMBDA row : ~(row.user_id = user_id /\ row.tmdb_id = tmdb_id))

---------------------------------------------------------------------------
(* class DB: one store call is one POST to the gateway's /v2/pipeline with *)
(* the requests <<execute, close>>; the reply has a status code and, in    *)
(* its body, one result per request.                                       *)

\* the ways the gateway answers a store call: the statement ran; the gateway
\* answered with another status than 200; the statement was refused and the body
\* carries an error entry for it
ReplyModes == {"ok", "http", "error"}
FailureModes == ReplyModes \ {"ok"}

\* the result of the close request
CloseOk == [type |-> "ok", has_result |-> FALSE, rows |-> <<>>]

\* the gateway's reply in mode, when the statement's result set is rows
GatewayReply(mode, rows) ==
    CASE mode = "ok" ->
           [status_code |-> 200,
            results |-> <<[type |-> "ok", has_result |-> TRUE, rows |-> rows], CloseOk>>]
      [] mode = "error" ->
           [status_code |-> 200,
            results |-> <<[type |-> "error", has_result |-> FALSE, rows |-> <<>>], CloseOk>>]
      [] OTHER -> [status_code |-> 500, results |-> <<>>]

\* DB.exec: raises on a status other than 200 and on an error entry among the results
DB_exec(reply) ==
    IF reply.status_code # 200 THEN [raised |-> TRUE]
    ELSE IF \E i \in DOMAIN reply.results : reply.results[i].type = "error"
    THEN [raised |-> TRUE]
    ELSE [raised |-> FALSE]

\* DB.fetch: raises on a status other than 200; else the rows of the first result
\* if it has a response with a result, and no rows otherwise
DB_fetch(reply) ==
    IF reply.status_code # 200 THEN [raised |-> TRUE, rows |-> <<>>]
    ELSE IF reply.results # <<>> /\ reply.results[1].has_result
    THEN [raised |-> FALSE, rows |-> reply.results[1].rows]
    ELSE [raised |-> FALSE, rows |-> <<>>]

\* the positions at which a request waits for DB.fetch, and for DB.exec
FetchPcs == {"get_user", "check", "reread", "fetch"}
ExecPcs == {"write"}

\* the store call of request q, which waits at pc "failed" for a failed call's
\* reply to be handled, raises
Raises(q) ==
    IF q.at \in ExecPcs
    THEN DB_exec(GatewayReply(q.reply, <<>>)).raised
    ELSE DB_fetch(GatewayReply(q.reply, <<>>)).raised

\* request r is where its DB.fetch at pc returns: the statement ran, or it failed
\* and DB.fetch does not raise
At(r, pc) ==
    \/ reqs[r].pc = pc
    \/ reqs[r].pc = "failed" /\ reqs[r].at = pc /\ ~Raises(reqs[r])

\* what DB.fetch returns to request r when the statement's result set is rows
Got(r, rows) ==
    IF reqs[r].pc = "failed" THEN DB_fetch(GatewayReply(reqs[r].reply, rows)).rows
    ELSE DB_fetch(GatewayReply("ok", rows)).rows

\* the ids among what DB.fetch returns to request r when the statement selects ids
GotIds(r, ids) == IF Got(r, <<"rows">>) = <<>> THEN {} ELSE ids

---------------------------------------------------------------------------
(* Responses *)

\* the response to the request q in slot r is sent; the scripted client keeps
\* the responses to its requests
Answer(r, q, status, detail, body) ==
    /\ resp' = [req |-> q, status |-> status, detail |-> detail, body |-> body]
    /\ client' = IF client.scripted /\ r = ScriptSlot
                 THEN [client EXCEPT !.seen = Append(@, [status |-> status, detail |-> detail,
                                                         body |-> body])]
                 ELSE client

\* a step that sends no response
Silent == resp' = NoResp /\ UNCHANGED client

\* the response to the request q in slot r; the slot is free again
RespondTo(r, q, status, detail, body) ==
    /\ Answer(r, q, status, detail, body)
    /\ reqs' = [reqs EXCEPT ![r] = IdleReq]

Respond(r, status, detail, body) == RespondTo(r, reqs[r], status, detail, body)

\* slot r moves on to wait for its next store call
Goto(r, pc) ==
    /\ reqs' = [reqs EXCEPT ![r].pc = pc]
    /\ Silent

\* the requests, other than r, whose row (user_id, tmdb_id) of the table that
\* kinds names is written by r's statement: they are no longer clean
Disturb(r, kinds, user_id, tmdb_id, next) ==
    [o \in Slots |->
        IF o = r THEN next
        ELSE IF /\ reqs[o].kind \in kinds /\ reqs[o].pc \in {"write", "reread"}
                /\ reqs[o].uid = user_id /\ reqs[o].args.tmdb_id = tmdb_id
             THEN [reqs[o] EXCEPT !.clean = FALSE]
             ELSE reqs[o]]

---------------------------------------------------------------------------
(* Authentication: security = HTTPBearer() and get_user.                   *)

\* HTTPBearer.__call__: the header must carry the scheme Bearer and credentials
BearerOk(header) == header.scheme = "Bearer" /\ header.credentials # <<>>

\* the status HTTPBearer (auto_error) answers with when BearerOk fails: 403 "Not
\* authenticated" in FastAPI before 0.122, 401 from 0.122 on; src/ pins no version
BearerErrorStatuses == {401, 403}

\* the endpoints whose handler has user: dict = Depends(get_user)
RatingKinds == {"get_ratings", "save_rating", "delete_rating"}
WatchlistKinds ==
    {"get_watchlist", "add_to_watchlist", "remove_from_watchlist", "check_watchlist"}
AuthKinds ==
    {"me", "update_profile", "movies", "stats", "export_data"}
        \cup RatingKinds \cup WatchlistKinds

\* the store call a handler makes first, once get_user has returned
FirstPc(kind) ==
    CASE kind \in {"save_rating", "add_to_watchlist"} -> "check"
      [] kind \in {"delete_rating", "remove_from_watchlist", "update_profile"} -> "write"
      [] kind = "movies" -> "upstream"
      [] OTHER -> "fetch"

\* the first clock reading of the application specifications
T0 == 200007 * Resolution + 1
\* the clock readings of the application specifications
Clocks == {T0, T0 + TOKEN_TTL * Resolution, T0 + TOKEN_TTL * Resolution + 1}
\* the bearer tokens clients hold at T0: made for user ids 1 and 2 within the last second
ValidHeaders == {Bearer(TokenOf(id, IntTimestamp(T0))) : id \in {1, 2}}
\* no header, and a header of another scheme
MissingHeaders == {NoHeader, [scheme |-> "Basic", credentials |-> <<"x">>]}
\* credentials that are not in the format of make_token: no colon, a user id that
\* is no number, a user id written with a digit that is not ASCII
MalformedHeaders ==
    {Bearer(<<"x">>),
     Bearer(<<"a">> \o Tail(TokenOf(1, IntTimestamp(T0)))),
     Bearer(<<"U+FF11">> \o Tail(TokenOf(1, IntTimestamp(T0))))}
\* a token made for user 1 more than TOKEN_TTL seconds before T0
ExpiredHeaders == {Bearer(TokenOf(1, IntTimestamp(T0) - TOKEN_TTL - 1))}
\* a signature that make_token did not compute for the user id and timestamp:
\* user 2's token with user id 1, and a token signed for another timestamp
ForgedHeaders ==
    {Bearer(<<"1">> \o Tail(TokenOf(2, IntTimestamp(T0)))),
     Bearer(IntToStr(1) \o <<":">> \o IntToStr(IntTimestamp(T0)) \o <<":">>
                \o Signature(1, IntTimestamp(T0) + 1))}
\* correctly signed tokens for user ids that no row of users has
UnknownUserHeaders == {Bearer(TokenOf(id, IntTimestamp(T0))) : id \in {0, 9}}
\* every Authorization header a request of the model carries
Headers ==
    ValidHeaders \cup MissingHeaders \cup MalformedHeaders \cup ExpiredHeaders
        \cup ForgedHeaders \cup UnknownUserHeaders

\* check_token(cred.credentials) for the headers and clock readings of the model,
\* computed once
CheckTokenTable == [h \in Headers, c \in Clocks |-> check_token(h.credentials, c)]

\* a request to an endpoint behind get_user arrives: HTTPBearer, then check_token,
\* then the SELECT of get_user is sent
Submit(r, kind, header, args) ==
    /\ reqs[r].pc = "idle"
    /\ kind \in AuthKinds
    /\ LET q == [IdleReq EXCEPT !.kind = kind, !.args = args, !.header = header,
                              !.checked = now] IN
       IF ~BearerOk(header)
       THEN \E st \in BearerErrorStatuses : RespondTo(r, q, st, "Not authenticated", <<>>)
       ELSE LET user_id == CheckTokenTable[header, now] IN
            IF ~user_id.some \/ user_id.val = 0              \* if not user_id
            THEN RespondTo(r, q, 401, "Invalid token", <<>>)
            ELSE /\ reqs' = [reqs EXCEPT ![r] = [q EXCEPT !.pc = "get_user",
                                                          !.uid = user_id.val]]
                 /\ Silent
    /\ UNCHANGED <<storeVars, now>>
    /\ UNCHANGED <<tkVars, pwVars>>

\* get_user's SELECT returns
get_user(r) ==
    /\ At(r, "get_user")
    /\ reqs[r].kind # "me"
    /\ IF Got(r, SelectUserById(reqs[r].uid)) = <<>>
       THEN Respond(r, 401, "User not found", <<>>)
       ELSE /\ reqs' = [reqs EXCEPT ![r].pc = FirstPc(reqs[r].kind),
                                    ![r].user = Got(r, SelectUserById(reqs[r].uid))[1]]
            /\ Silent
    /\ UNCHANGED <<storeVars, now>>
    /\ UNCHANGED <<tkVars, pwVars>>

---------------------------------------------------------------------------
(* POST /auth/register *)

\* a request to an endpoint without get_user arrives: its first SELECT is sent
SubmitOpen(r, kind, args) ==
    /\ reqs[r].pc = "idle"
    /\ kind \in {"register", "login"}
    /\ reqs' = [reqs EXCEPT ![r] = [IdleReq EXCEPT !.kind = kind, !.args = args,
                                                   !.pc = "check"]]
    /\ Silent
    /\ UNCHANGED <<storeVars, now>>
    /\ UNCHANGED <<tkVars, pwVars>>

\* the salt that secrets.token_hex(16) generates in the application specifications
AppSalt == PadRight(<<"5">>, 2 * SALT_BYTES, "0")

\* data.email or f"{data.username}@placeholder.com"
EmailOf(args) == IF args.email # "" THEN <<args.email>>
                 ELSE <<args.username, "@placeholder.com">>

\* the row that register inserts for args and salt
UserRowOf(a, salt) ==
    [username |-> a.username,
     hashed_password |-> hash_pwd(a.password, salt),
     display_name |-> IF a.display_name # "" THEN a.display_name ELSE a.username,
     email |-> EmailOf(a)]

\* "SELECT id FROM users WHERE username = ?" returns
register_check(r) ==
    /\ At(r, "check") /\ reqs[r].kind = "register"
    /\ IF GotIds(r, UserIdsByUsername(reqs[r].args.username)) # {}
       THEN Respond(r, 400, "Username already exists", <<>>)
       ELSE Goto(r, "write")
    /\ UNCHANGED <<storeVars, now>>
    /\ UNCHANGED <<tkVars, pwVars>>

\* the INSERT INTO users executes; an error of the store is caught by
\* "except Exception" and answered with 500 "Registration failed: ..."
register_write(r, salt) ==
    /\ reqs[r].pc = "write" /\ reqs[r].kind = "register"
    /\ LET row == UserRowOf(reqs[r].args, salt)
       IN  IF UsersUniqueViolated(row)
           THEN /\ Respond(r, 500, "Registration failed", <<>>)
                /\ UNCHANGED users
           ELSE /\ users' = Append(users, row)
                /\ Goto(r, "reread")
    /\ UNCHANGED <<ratings, watchlist, now>>
    /\ UNCHANGED <<tkVars, pwVars>>

\* "SELECT id, username, display_name, email FROM users WHERE username = ?" returns
register_reread(r) ==
    /\ At(r, "reread") /\ reqs[r].kind = "register"
    /\ LET ids == GotIds(r, UserIdsByUsername(reqs[r].args.username)) IN
       IF ids = {}
       THEN Respond(r, 500, "Failed to create user", <<>>)
       ELSE LET id == FirstIdx(ids) IN
            Respond(r, 200, "",
                    <<[access_token |-> make_token(id, now),
                       user |-> [id |-> id, username |-> users[id].username,
                                 display_name |-> users[id].display_name,
                                 email |-> users[id].email]]>>)
    /\ UNCHANGED <<storeVars, now>>
    /\ UNCHANGED <<tkVars, pwVars>>

---------------------------------------------------------------------------
(* GET /ratings, POST /ratings, DELETE /ratings/{tmdb_id} *)

\* the SELECT of get_ratings returns
get_ratings(r) ==
    /\ At(r, "fetch") /\ reqs[r].kind = "get_ratings"
    /\ Respond(r, 200, "", Got(r, RatingsOfUser(reqs[r].uid)))
    /\ UNCHANGED <<storeVars, now>>
    /\ UNCHANGED <<tkVars, pwVars>>

\* "SELECT id FROM ratings WHERE user_id = ? AND tmdb_id = ?" returns
save_rating_check(r) ==
    /\ At(r, "check") /\ reqs[r].kind = "save_rating"
    /\ reqs' = [reqs EXCEPT ![r].pc = "write", ![r].clean = TRUE,
                            ![r].existing = (Got(r, RatingsOf(reqs[r].uid, reqs[r].args.tmdb_id)) # <<>>)]
    /\ Silent
    /\ UNCHANGED <<storeVars, now>>
    /\ UNCHANGED <<tkVars, pwVars>>

\* the UPDATE or the INSERT executes; an error of the store is not caught by the
\* handler and ends in the global handler's 500
save_rating_write(r) ==
    /\ reqs[r].pc = "write" /\ reqs[r].kind = "save_rating"
    /\ LET q == reqs[r]
           media_type == IF q.args.media_type # "" THEN q.args.media_type ELSE "movie"
           row == [user_id |-> q.uid, tmdb_id |-> q.args.tmdb_id,
                   user_rating |-> q.args.user_rating, title |-> q.args.title,
                   year |-> q.args.year, genres |-> q.args.genres,
                   media_type |-> media_type]
       IN  IF q.existing
           THEN /\ ratings' = UpdateRatings(q.uid, q.args.tmdb_id, q.args.user_rating,
                                            media_type)
                /\ reqs' = Disturb(r, {"save_rating"}, q.uid, q.args.tmdb_id,
                                   [q EXCEPT !.pc = "reread"])
                /\ Silent
           ELSE IF RatingsUniqueViolated(row)
           THEN /\ Respond(r, 500, "DB exec error", <<>>)
                /\ UNCHANGED ratings
           ELSE /\ ratings' = InsertRow(ratings, row)
                /\ reqs' = Disturb(r, {"save_rating"}, q.uid, q.args.tmdb_id,
                                   [q EXCEPT !.pc = "reread"])
                /\ Silent
    /\ UNCHANGED <<users, watchlist, now>>
    /\ UNCHANGED <<tkVars, pwVars>>

\* "SELECT * FROM ratings WHERE user_id = ? AND tmdb_id = ?" returns
save_rating_reread(r) ==
    /\ At(r, "reread") /\ reqs[r].kind = "save_rating"
    /\ LET rows == Got(r, RatingsOf(reqs[r].uid, reqs[r].args.tmdb_id)) IN
       IF rows = <<>>
       THEN Respond(r, 500, "Failed to save rating", <<>>)
       ELSE Respond(r, 200, "", <<rows[1]>>)
    /\ UNCHANGED <<storeVars, now>>
    /\ UNCHANGED <<tkVars, pwVars>>

\* the DELETE executes
delete_rating(r) ==
    /\ reqs[r].pc = "write" /\ reqs[r].kind = "delete_rating"
    /\ ratings' = DeleteRatings(reqs[r].uid, reqs[r].args.tmdb_id)
    /\ Answer(r, reqs[r], 200, "", <<[ok |-> TRUE]>>)
    /\ reqs' = Disturb(r, {"save_rating"}, reqs[r].uid, reqs[r].args.tmdb_id, IdleReq)
    /\ UNCHANGED <<users, watchlist, now>>
    /\ UNCHANGED <<tkVars, pwVars>>

---------------------------------------------------------------------------
(* GET /watchlist, POST /watchlist, DELETE /watchlist/{tmdb_id},           *)
(* GET /watchlist/check/{tmdb_id}                                          *)

\* a pre-check that reads the ratings table instead
WatchlistOfRatings(user_id, tmdb_id) == RowsOf(ratings, user_id, tmdb_id)

\* SELECT id FROM watchlist WHERE user_id = ? AND tmdb_id = ?
WatchlistOf(user_id, tmdb_id) == RowsOf(watchlist, user_id, tmdb_id)

\* watchlist: UNIQUE(user_id, tmdb_id)
WatchlistUniqueViolated(row) ==
    \E i \in DOMAIN watchlist :
        watchlist[i].user_id = row.user_id /\ watchlist[i].tmdb_id = row.tmdb_id

\* the SELECT of get_watchlist returns
get_watchlist(r) ==
    /\ At(r, "fetch") /\ reqs[r].kind = "get_watchlist"
    /\ Respond(r, 200, "", <<[items |-> Got(r, RowsOfUser(watchlist, reqs[r].uid))]>>)
    /\ UNCHANGED <<storeVars, now>>
    /\ UNCHANGED <<tkVars, pwVars>>

\* the pre-check's SELECT returns
add_to_watchlist_check(r) ==
    /\ At(r, "check") /\ reqs[r].kind = "add_to_watchlist"
    /\ IF Got(r, WatchlistOf(reqs[r].uid, reqs[r].args.tmdb_id)) # <<>>
       THEN Respond(r, 400, "Already in watchlist", <<>>)
       ELSE Goto(r, "write")
    /\ UNCHANGED <<storeVars, now>>
    /\ UNCHANGED <<tkVars, pwVars>>

\* the INSERT executes; an error of the store is not caught by the handler and
\* ends in the global handler's 500
add_to_watchlist_write(r) ==
    /\ reqs[r].pc = "write" /\ reqs[r].kind = "add_to_watchlist"
    /\ LET row == [user_id |-> reqs[r].uid, tmdb_id |-> reqs[r].args.tmdb_id,
                   title |-> reqs[r].args.title]
       IN  IF WatchlistUniqueViolated(row)
           THEN /\ Respond(r, 500, "DB exec error", <<>>)
                /\ UNCHANGED watchlist
           ELSE /\ watchlist' = InsertRow(watchlist, row)
                /\ Respond(r, 200, "", <<[ok |-> TRUE]>>)
    /\ UNCHANGED <<users, ratings, now>>
    /\ UNCHANGED <<tkVars, pwVars>>

\* the DELETE executes
remove_from_watchlist(r) ==
    /\ reqs[r].pc = "write" /\ reqs[r].kind = "remove_from_watchlist"
    /\ watchlist' = SelectSeq(watchlist,
                              LAMBDA row : ~(row.user_id = reqs[r].uid
                                             /\ row.tmdb_id = reqs[r].args.tmdb_id))
    /\ Respond(r, 200, "", <<[ok |-> TRUE]>>)
    /\ UNCHANGED <<users, ratings, now>>
    /\ UNCHANGED <<tkVars, pwVars>>

\* the SELECT of check_watchlist returns
check_watchlist(r) ==
    /\ At(r, "fetch") /\ reqs[r].kind = "check_watchlist"
    /\ Respond(r, 200, "",
               <<[in_watchlist |-> Len(Got(r, WatchlistOf(reqs[r].uid, reqs[r].args.tmdb_id))) > 0]>>)
    /\ UNCHANGED <<storeVars, now>>
    /\ UNCHANGED <<tkVars, pwVars>>

---------------------------------------------------------------------------
(* Specification SpecRatings: the ratings endpoints, two requests in       *)
(* flight at a time, once alice and bob have registered.                   *)

Usernames == {"alice", "bob"}
TmdbIds == {42, 43}
Scores == {7, 3}

RegisterArgs == {[NoArgs EXCEPT !.username = u, !.password = <<"p">>] : u \in Usernames}
TmdbArgs == {[NoArgs EXCEPT !.tmdb_id = m] : m \in TmdbIds}
RatingArgs ==
    {[NoArgs EXCEPT !.tmdb_id = m, !.user_rating = x, !.title = "X"] :
        m \in TmdbIds, x \in Scores}

\* the users table after alice and then bob registered
TwoUsers ==
    <<UserRowOf([NoArgs EXCEPT !.username = "alice", !.password = <<"p">>], AppSalt),
      UserRowOf([NoArgs EXCEPT !.username = "bob", !.password = <<"p">>], AppSalt)>>

InitApp(users0) ==
    /\ users = users0 /\ ratings = <<>> /\ watchlist = <<>>
    /\ now = T0
    /\ reqs = [r \in Slots |-> IdleReq]
    /\ resp = NoResp
    /\ client = NoClient
    /\ TkIdle /\ PwIdle

NextRatings ==
    \/ \E r \in Slots, h \in ValidHeaders : Submit(r, "get_ratings", h, NoArgs)
    \/ \E r \in Slots, h \in ValidHeaders, a \in RatingArgs : Submit(r, "save_rating", h, a)
    \/ \E r \in Slots, h \in ValidHeaders, a \in TmdbArgs : Submit(r, "delete_rating", h, a)
    \/ \E r \in Slots : get_user(r)
    \/ \E r \in Slots : get_ratings(r)
    \/ \E r \in Slots : save_rating_check(r)
    \/ \E r \in Slots : save_rating_write(r)
    \/ \E r \in Slots : save_rating_reread(r)
    \/ \E r \in Slots : delete_rating(r)

SpecRatings == InitApp(TwoUsers) /\ [][NextRatings]_vars

\* slot r sends its response in this step
Responds(r) == reqs[r].pc # "idle" /\ reqs'[r].pc = "idle"

\* no two rows of ratings have the same (user_id, tmdb_id)
OneRatingPerKey ==
    \A i, j \in DOMAIN ratings :
        (ratings[i].user_id = ratings[j].user_id /\ ratings[i].tmdb_id = ratings[j].tmdb_id)
            => i = j

\* a POST /ratings that no other request's write to its row overlaps ends with
\* 200 and exactly one row for its (user, tmdb_id), holding its score
PostYieldsOneRow(r) ==
    (Responds(r) /\ reqs[r].kind = "save_rating" /\ reqs[r].pc \in {"write", "reread"}
               /\ reqs[r].clean)
        => /\ resp'.status = 200
           /\ Len(RowsOf(ratings', reqs[r].uid, reqs[r].args.tmdb_id)) = 1
           /\ RowsOf(ratings', reqs[r].uid, reqs[r].args.tmdb_id)[1].user_rating
                  = reqs[r].args.user_rating

\* C5: after any sequence of POST /ratings and DELETE /ratings requests the store
\* holds at most one rating row per (user, tmdb_id); a POST for a (user, tmdb_id)
\* posted before leaves exactly one row, holding the score of the latest POST.
C5_UpsertIdempotent ==
    /\ []OneRatingPerKey
    /\ [][\A r \in Slots : PostYieldsOneRow(r)]_vars

\* C5's case: a second POST for the same (user, tmdb_id) was answered, and the one
\* row holds its score
C5_Witness ==
    /\ resp.req.kind = "save_rating" /\ resp.status = 200
    /\ resp.req.existing /\ resp.req.clean
    /\ Len(RatingsOf(resp.req.uid, resp.req.args.tmdb_id)) = 1
    /\ RatingsOf(resp.req.uid, resp.req.args.tmdb_id)[1].user_rating
           = resp.req.args.user_rating

---------------------------------------------------------------------------
(* Specification SpecWatchlist: the watchlist endpoints, two requests in   *)
(* flight at a time, once alice and bob have registered.                   *)

Titles == {"X", "Y"}
WatchlistArgs ==
    {[NoArgs EXCEPT !.tmdb_id = m, !.title = t] : m \in TmdbIds, t \in Titles}

NextWatchlist ==
    \/ \E r \in Slots, h \in ValidHeaders : Submit(r, "get_watchlist", h, NoArgs)
    \/ \E r \in Slots, h \in ValidHeaders, a \in WatchlistArgs :
           Submit(r, "add_to_watchlist", h, a)
    \/ \E r \in Slots, h \in ValidHeaders, a \in TmdbArgs :
           Submit(r, "remove_from_watchlist", h, a)
    \/ \E r \in Slots, h \in ValidHeaders, a \in TmdbArgs :
           Submit(r, "check_watchlist", h, a)
    \/ \E r \in Slots : get_user(r)
    \/ \E r \in Slots : get_watchlist(r)
    \/ \E r \in Slots : add_to_watchlist_check(r)
    \/ \E r \in Slots : add_to_watchlist_write(r)
    \/ \E r \in Slots : remove_from_watchlist(r)
    \/ \E r \in Slots : check_watchlist(r)

SpecWatchlist == InitApp(TwoUsers) /\ [][NextWatchlist]_vars

\* no two rows of watchlist have the same (user_id, tmdb_id)
OneWatchlistRowPerKey ==
    \A i, j \in DOMAIN watchlist :
        (watchlist[i].user_id = watchlist[j].user_id
            /\ watchlist[i].tmdb_id = watchlist[j].tmdb_id) => i = j

\* the pre-check of a POST /watchlist that finds the entry present ends the request
\* with 400 "Already in watchlist": no INSERT follows and the table is unchanged
DuplicateRejected(r) ==
    (/\ reqs[r].kind = "add_to_watchlist" /\ reqs[r].pc = "check"
     /\ reqs'[r] # reqs[r]
     /\ RowsOf(watchlist, reqs[r].uid, reqs[r].args.tmdb_id) # <<>>)
        => /\ Responds(r)
           /\ resp'.status = 400 /\ resp'.detail = "Already in watchlist"
           /\ watchlist' = watchlist
           /\ Len(RowsOf(watchlist', reqs[r].uid, reqs[r].args.tmdb_id)) = 1

\* C6: when a user's watchlist holds an entry for tmdb_id, a further POST /watchlist
\* by that user for the same tmdb_id returns 400 "Already in watchlist", issues no
\* INSERT, and leaves exactly one row for (user, tmdb_id), its fields unchanged.
C6_DuplicateRejected ==
    /\ []OneWatchlistRowPerKey
    /\ [][\A r \in Slots : DuplicateRejected(r)]_vars

\* C6's case: a POST for an entry already present, carrying another title, was
\* answered 400 and the stored row keeps its title
C6_Witness ==
    /\ resp.req.kind = "add_to_watchlist" /\ resp.status = 400
    /\ Len(WatchlistOf(resp.req.uid, resp.req.args.tmdb_id)) = 1
    /\ WatchlistOf(resp.req.uid, resp.req.args.tmdb_id)[1].title # resp.req.args.title

---------------------------------------------------------------------------
(* POST /auth/login *)

\* the "SELECT ... FROM users WHERE username = ?" of login returns; a ValueError
\* of verify_pwd is not caught and ends in the global handler's 500
login(r) ==
    /\ At(r, "check") /\ reqs[r].kind = "login"
    /\ LET ids == GotIds(r, UserIdsByUsername(reqs[r].args.username)) IN
       IF ids = {}
       THEN Respond(r, 401, "Invalid credentials", <<>>)
       ELSE LET id == FirstIdx(ids)
                ok == verify_pwd(reqs[r].args.password, users[id].hashed_password)
            IN  CASE ok = "True" ->
                       Respond(r, 200, "",
                               <<[access_token |-> make_token(id, now),
                                  user |-> [id |-> id, username |-> users[id].username,
                                            display_name |-> users[id].display_name]]>>)
                  [] ok = "False" -> Respond(r, 401, "Invalid credentials", <<>>)
                  [] OTHER -> Respond(r, 500, "ValueError", <<>>)
    /\ UNCHANGED <<storeVars, now>>
    /\ UNCHANGED <<tkVars, pwVars>>

---------------------------------------------------------------------------
(* Specification SpecRegister: registration and login, two requests in     *)
(* flight at a time, starting with no user.                                *)

AppPasswords == {<<"p">>, <<"q">>}
Emails == {"", "e@x"}
OpenArgs ==
    {[NoArgs EXCEPT !.username = u, !.password = p, !.email = e] :
        u \in Usernames, p \in AppPasswords, e \in Emails}
LoginArgs ==
    {[NoArgs EXCEPT !.username = u, !.password = p] : u \in Usernames, p \in AppPasswords}

NextRegister ==
    \/ \E r \in Slots, a \in OpenArgs : SubmitOpen(r, "register", a)
    \/ \E r \in Slots, a \in LoginArgs : SubmitOpen(r, "login", a)
    \/ \E r \in Slots : register_check(r)
    \/ \E r \in Slots : register_write(r, AppSalt)
    \/ \E r \in Slots : register_reread(r)
    \/ \E r \in Slots : login(r)

SpecRegister == InitApp(<<>>) /\ [][NextRegister]_vars

\* a register request that has not inserted its row answers while a stored user
\* holds its username: the answer is 400 "Username already exists", no row is added
DuplicateUsernameConflict(r) ==
    (/\ Responds(r) /\ reqs[r].kind = "register" /\ reqs[r].pc \in {"check", "write"}
     /\ UserIdsByUsername(reqs[r].args.username) # {})
        => /\ resp'.status = 400 /\ resp'.detail = "Username already exists"
           /\ users' = users

\* C8: every register request whose username is held by a stored user when it is
\* processed, two interleaved registrations of one username included, ends in
\* 400 "Username already exists", in no other error, and creates no row.
C8_DuplicateUsernameConflict == [][\A r \in Slots : DuplicateUsernameConflict(r)]_vars

\* the stored password of username is not the hash of pwd
WrongPassword(username, pwd) ==
    \E i \in DOMAIN users :
        /\ users[i].username = username
        /\ users[i].hashed_password # hash_pwd(pwd, AppSalt)

\* a login for an unknown username or with a wrong password is answered with the
\* one response 401 "Invalid credentials": no token, no change of the store
LoginFailure(r) ==
    (/\ Responds(r) /\ reqs[r].kind = "login"
     /\ \/ UserIdsByUsername(reqs[r].args.username) = {}
        \/ WrongPassword(reqs[r].args.username, reqs[r].args.password))
        => /\ resp'.status = 401 /\ resp'.detail = "Invalid credentials"
           /\ resp'.body = <<>>
           /\ storeVars' = storeVars

\* C10: login on an unknown username and login on a known username with a wrong
\* password return the same 401 "Invalid credentials", issue no token and leave
\* the store unchanged.
C10_LoginConstantFailure == [][\A r \in Slots : LoginFailure(r)]_vars

\* C10's case: a login for a registered username with another password than the
\* registered one was answered 401 "Invalid credentials"
C10_Witness ==
    /\ resp.req.kind = "login" /\ resp.status = 401 /\ resp.detail = "Invalid credentials"
    /\ WrongPassword(resp.req.args.username, resp.req.args.password)

---------------------------------------------------------------------------
(* GET /auth/me, POST /auth/update_profile, GET /movies/..., GET           *)
(* /ratings/stats, GET /ratings/export                                     *)

\* get_user's SELECT returns to me, which returns the row
me(r) ==
    /\ At(r, "get_user") /\ reqs[r].kind = "me"
    /\ IF Got(r, SelectUserById(reqs[r].uid)) = <<>>
       THEN Respond(r, 401, "User not found", <<>>)
       ELSE Respond(r, 200, "", Got(r, SelectUserById(reqs[r].uid)))
    /\ UNCHANGED <<storeVars, now>>
    /\ UNCHANGED <<tkVars, pwVars>>

\* "UPDATE users SET display_name = ? WHERE id = ?" executes
update_profile(r) ==
    /\ reqs[r].pc = "write" /\ reqs[r].kind = "update_profile"
    /\ users' = [i \in DOMAIN users |->
                    IF i = reqs[r].user.id
                    THEN [users[i] EXCEPT !.display_name = reqs[r].args.display_name]
                    ELSE users[i]]
    /\ Respond(r, 200, "", <<[display_name |-> reqs[r].args.display_name]>>)
    /\ UNCHANGED <<ratings, watchlist, now>>
    /\ UNCHANGED <<tkVars, pwVars>>

\* popular, search, top_rated, movie_detail: the requests to TMDB return; the
\* handlers read and write no table, movie_detail answers 404 when TMDB has no entry
movies(r, found) ==
    /\ reqs[r].pc = "upstream" /\ reqs[r].kind = "movies"
    /\ IF found THEN Respond(r, 200, "", <<>>) ELSE Respond(r, 404, "Not found", <<>>)
    /\ UNCHANGED <<storeVars, now>>
    /\ UNCHANGED <<tkVars, pwVars>>

\* sum(xs)
RECURSIVE Sum(_)
Sum(xs) == IF xs = <<>> THEN 0 ELSE Head(xs) + Sum(Tail(xs))

\* round(num / den, 2), in hundredths: to the nearest, a tie to the even neighbour
Round2(num, den) ==
    LET q == (100 * num) \div den
        rest == (100 * num) % den
    IN  IF 2 * rest > den \/ (2 * rest = den /\ q % 2 = 1) THEN q + 1 ELSE q

\* the names that the loop over r["genres"].split(",") counts, in the order in
\* which it meets them
RECURSIVE GenreNames(_)
GenreNames(rows) ==
    IF rows = <<>> THEN <<>>
    ELSE LET parts == IF Head(rows).genres = <<>> THEN <<>>
                      ELSE Split(Head(rows).genres, ",")
             names == [k \in DOMAIN parts |-> Strip(parts[k])]
         IN  SelectSeq(names, LAMBDA g : g # <<>>) \o GenreNames(Tail(rows))

\* the keys of a dict that was filled in the order of names, with their counts
Counted(names) ==
    LET first == {i \in DOMAIN names : \A j \in 1..(i - 1) : names[j] # names[i]}
        nth(k) == CHOOSE i \in first : Cardinality({j \in first : j < i}) = k - 1
    IN  [k \in 1..Cardinality(first) |->
            [name |-> names[nth(k)],
             count |-> Cardinality({j \in DOMAIN names : names[j] = names[nth(k)]})]]

\* sorted(items, key = count, reverse = True)[:n]: a stable sort
TopByCount(items, n) ==
    LET before(i) == {j \in DOMAIN items :
                         \/ items[j].count > items[i].count
                         \/ items[j].count = items[i].count /\ j < i}
        m == IF Len(items) < n THEN Len(items) ELSE n
    IN  [k \in 1..m |-> items[CHOOSE i \in DOMAIN items : Cardinality(before(i)) = k - 1]]

\* sorted(by_year.items(), key = year, reverse = True)[:n], as year and count
TopYears(rows, n) ==
    LET years == {rows[i].year : i \in DOMAIN rows} \ {0}
        m == IF Cardinality(years) < n THEN Cardinality(years) ELSE n
        kth(k) == CHOOSE y \in years : Cardinality({z \in years : z > y}) = k - 1
    IN  [k \in 1..m |->
            [year |-> kth(k),
             count |-> Cardinality({i \in DOMAIN rows : rows[i].year = kth(k)})]]

\* the limits of the two lists of stats
TOP_GENRES == 8
TOP_YEARS == 10

\* what stats returns when the SELECT returned no row
ZeroStats ==
    [total |-> 0, average |-> 0, max |-> 0, min |-> 0,
     distribution |-> [k \in {NatToStr(i) : i \in 1..10} |-> 0],
     genres |-> <<>>, by_type |-> [movie |-> 0, tv |-> 0], by_year |-> <<>>]

\* the fold of stats over rows; the average is in hundredths; dividing by
\* len(ratings) raises ZeroDivisionError when there is no row
FoldStats(rows) ==
    LET xs == [i \in DOMAIN rows |-> rows[i].user_rating]
        typed(t) == Cardinality({i \in DOMAIN rows :
                        (IF rows[i].media_type # "" THEN rows[i].media_type ELSE "movie") = t})
    IN  IF Len(xs) = 0 THEN [error |-> "ZeroDivisionError", body |-> <<>>]
        ELSE [error |-> "",
              body |-> <<[total |-> Len(xs),
                          average |-> Round2(Sum(xs), Len(xs)),
                          max |-> CHOOSE x \in Range(xs) : \A y \in Range(xs) : y <= x,
                          min |-> CHOOSE x \in Range(xs) : \A y \in Range(xs) : x <= y,
                          distribution |->
                              [k \in {NatToStr(i) : i \in 1..10} |->
                                  Cardinality({i \in DOMAIN xs : NatToStr(xs[i]) = k})],
                          genres |-> TopByCount(Counted(GenreNames(rows)), TOP_GENRES),
                          by_type |-> [movie |-> typed("movie"), tv |-> typed("tv")],
                          by_year |-> TopYears(rows, TOP_YEARS)]>>]

\* a stats without its branch for no rows
StatsOfFoldOnly(rows) == FoldStats(rows)

\* the body of stats: the zero-filled summary if there is no row, else the fold
StatsOf(rows) ==
    IF rows = <<>> THEN [error |-> "", body |-> <<ZeroStats>>] ELSE FoldStats(rows)

\* the SELECT of stats returns; an exception in the fold ends in the global
\* handler's 500
stats(r) ==
    /\ At(r, "fetch") /\ reqs[r].kind = "stats"
    /\ LET result == StatsOf(Got(r, RowsOfUser(ratings, reqs[r].user.id))) IN
       IF result.error # "" THEN Respond(r, 500, result.error, <<>>)
       ELSE Respond(r, 200, "", result.body)
    /\ UNCHANGED <<storeVars, now>>
    /\ UNCHANGED <<tkVars, pwVars>>

\* the SELECT of export_data returns
export_data(r) ==
    /\ At(r, "fetch") /\ reqs[r].kind = "export_data"
    /\ Respond(r, 200, "",
               <<[user |-> reqs[r].user,
                  total_ratings |-> Len(Got(r, RatingsOfUser(reqs[r].user.id))),
                  ratings |-> Got(r, RatingsOfUser(reqs[r].user.id))]>>)
    /\ UNCHANGED <<storeVars, now>>
    /\ UNCHANGED <<tkVars, pwVars>>

\* time passes
Tick(c) ==
    /\ c \in Clocks /\ c > now
    /\ now' = c
    /\ Silent
    /\ UNCHANGED <<storeVars, reqs>>
    /\ UNCHANGED <<tkVars, pwVars>>

---------------------------------------------------------------------------
(* Specification SpecAuth: every endpoint behind get_user, one request at  *)
(* a time, with every kind of Authorization header, while time passes.     *)

AuthSlots == {1}
ProfileArgs == {[NoArgs EXCEPT !.display_name = "Al"]}
OneTmdbArg == {[NoArgs EXCEPT !.tmdb_id = 42]}
OneRatingArg == {[NoArgs EXCEPT !.tmdb_id = 42, !.user_rating = 7, !.title = "X"]}
OneWatchlistArg == {[NoArgs EXCEPT !.tmdb_id = 42, !.title = "X"]}

\* the arguments that the model sends to an endpoint of SpecAuth
AuthArgs(kind) ==
    CASE kind = "update_profile" -> ProfileArgs
      [] kind = "save_rating" -> OneRatingArg
      [] kind = "add_to_watchlist" -> OneWatchlistArg
      [] kind \in {"delete_rating", "remove_from_watchlist", "check_watchlist"} -> OneTmdbArg
      [] OTHER -> {NoArgs}

NextAuth ==
    \/ \E r \in AuthSlots, k \in AuthKinds, h \in Headers :
           \E a \in AuthArgs(k) : Submit(r, k, h, a)
    \/ \E c \in Clocks : Tick(c)
    \/ \E r \in AuthSlots : get_user(r)
    \/ \E r \in AuthSlots : me(r)
    \/ \E r \in AuthSlots : update_profile(r)
    \/ \E r \in AuthSlots, found \in BOOLEAN : movies(r, found)
    \/ \E r \in AuthSlots : stats(r)
    \/ \E r \in AuthSlots : export_data(r)
    \/ \E r \in AuthSlots : get_ratings(r)
    \/ \E r \in AuthSlots : save_rating_check(r)
    \/ \E r \in AuthSlots : save_rating_write(r)
    \/ \E r \in AuthSlots : save_rating_reread(r)
    \/ \E r \in AuthSlots : delete_rating(r)
    \/ \E r \in AuthSlots : get_watchlist(r)
    \/ \E r \in AuthSlots : add_to_watchlist_check(r)
    \/ \E r \in AuthSlots : add_to_watchlist_write(r)
    \/ \E r \in AuthSlots : remove_from_watchlist(r)
    \/ \E r \in AuthSlots : check_watchlist(r)

SpecAuth == InitApp(TwoUsers) /\ [][NextAuth]_vars

\* the request q came without a token, or with one that is malformed, forged, made
\* for no stored user, or was more than TOKEN_TTL seconds old when it was checked
BadCredentials(q) ==
    \/ q.header \in MissingHeaders \cup MalformedHeaders \cup ExpiredHeaders
                        \cup ForgedHeaders \cup UnknownUserHeaders
    \/ q.header \in ValidHeaders /\ q.checked - T0 > TOKEN_TTL * Resolution

\* a request with bad credentials is answered 401 and never enters its handler
BadCredentialsGet401 ==
    /\ (resp.req.kind \in AuthKinds /\ BadCredentials(resp.req)) => resp.status = 401
    /\ \A r \in Slots :
           (reqs[r].pc # "idle" /\ BadCredentials(reqs[r])) => reqs[r].pc = "get_user"

\* a step of a request with bad credentials writes no table
BadCredentialsWriteNothing(r) ==
    (\/ reqs[r].pc # "idle" /\ BadCredentials(reqs[r]) /\ reqs'[r] # reqs[r]
     \/ reqs[r].pc = "idle" /\ resp'.req.kind \in AuthKinds /\ BadCredentials(resp'.req))
        => storeVars' = storeVars

\* C9: every endpoint behind get_user, called with a missing, malformed, expired or
\* forged token or with a token whose user id has no row, answers 401 and writes
\* nothing to the store.
C9_BadCredentialsRejected ==
    /\ []BadCredentialsGet401
    /\ [][\A r \in Slots : BadCredentialsWriteNothing(r)]_vars

---------------------------------------------------------------------------
(* Specification SpecScenario: a client registers as alice and then, with  *)
(* the token it received, sends POST /ratings, GET /ratings, DELETE        *)
(* /ratings/42 and GET /ratings, each once the response to the one before  *)
(* has arrived; meanwhile bob, registered before, sends ratings requests.  *)

ScenarioArgs == [NoArgs EXCEPT !.username = "alice", !.password = <<"p", "w", "1", "2", "3">>]
ScenarioRating == [NoArgs EXCEPT !.tmdb_id = 42, !.user_rating = 7, !.title = "X"]
ScenarioDelete == [NoArgs EXCEPT !.tmdb_id = 42]

\* the users table after bob registered
OneUser == <<UserRowOf([NoArgs EXCEPT !.username = "bob", !.password = <<"p">>], AppSalt)>>
\* the token bob holds
BobHeader == Bearer(TokenOf(1, IntTimestamp(T0)))

InitScenario ==
    /\ users = OneUser /\ ratings = <<>> /\ watchlist = <<>>
    /\ now = T0
    /\ reqs = [r \in Slots |-> IdleReq]
    /\ resp = NoResp
    /\ client = [scripted |-> TRUE, seen |-> <<>>]
    /\ TkIdle /\ PwIdle

\* the token T of the scenario: the access_token of the response to register
ScenarioHeader == Bearer(client.seen[1].body[1].access_token)

\* the scripted client sends its next request
ScenarioSubmit ==
    /\ reqs[ScriptSlot].pc = "idle"
    /\ \/ Len(client.seen) = 0 /\ SubmitOpen(ScriptSlot, "register", ScenarioArgs)
       \/ /\ Len(client.seen) >= 1 /\ client.seen[1].status = 200
          /\ \/ /\ Len(client.seen) = 1
                /\ Submit(ScriptSlot, "save_rating", ScenarioHeader, ScenarioRating)
             \/ /\ Len(client.seen) \in {2, 4}
                /\ Submit(ScriptSlot, "get_ratings", ScenarioHeader, NoArgs)
             \/ /\ Len(client.seen) = 3
                /\ Submit(ScriptSlot, "delete_rating", ScenarioHeader, ScenarioDelete)

BobSlots == Slots \ {ScriptSlot}

NextScenario ==
    \/ ScenarioSubmit
    \/ \E r \in BobSlots : Submit(r, "get_ratings", BobHeader, NoArgs)
    \/ \E r \in BobSlots, a \in RatingArgs : Submit(r, "save_rating", BobHeader, a)
    \/ \E r \in BobSlots, a \in TmdbArgs : Submit(r, "delete_rating", BobHeader, a)
    \/ \E r \in Slots : register_check(r)
    \/ \E r \in Slots : register_write(r, AppSalt)
    \/ \E r \in Slots : register_reread(r)
    \/ \E r \in Slots : get_user(r)
    \/ \E r \in Slots : get_ratings(r)
    \/ \E r \in Slots : save_rating_check(r)
    \/ \E r \in Slots : save_rating_write(r)
    \/ \E r \in Slots : save_rating_reread(r)
    \/ \E r \in Slots : delete_rating(r)

SpecScenario == InitScenario /\ [][NextScenario]_vars

\* the columns of a ratings row that GET /ratings returns
Listed(row) ==
    [tmdb_id |-> row.tmdb_id, title |-> row.title, user_rating |-> row.user_rating,
     year |-> row.year, genres |-> row.genres, media_type |-> row.media_type]

\* the responses of the scenario, as far as they have arrived: register and POST
\* succeed, the first GET returns the one row rated 7, DELETE succeeds, the second
\* GET returns the empty list
ScenarioOutcome ==
    /\ \A i \in DOMAIN client.seen : client.seen[i].status = 200
    /\ Len(client.seen) >= 2 => /\ client.seen[2].body[1].tmdb_id = 42
                                /\ client.seen[2].body[1].user_rating = 7
    /\ Len(client.seen) >= 3 => /\ Len(client.seen[3].body) = 1
                                /\ client.seen[3].body[1].tmdb_id = 42
                                /\ client.seen[3].body[1].user_rating = 7
    /\ Len(client.seen) >= 5 => Len(client.seen[5].body) = 0

\* a GET /ratings answers 200 with the rows that ratings holds for its user, and
\* with no other row
GetReturnsOwnRows(r) ==
    (Responds(r) /\ reqs[r].kind = "get_ratings" /\ reqs[r].pc = "fetch")
        => /\ resp'.status = 200
           /\ Len(resp'.body) = Len(RowsOfUser(ratings, reqs[r].uid))
           /\ \A i \in DOMAIN resp'.body :
                  resp'.body[i] = Listed(RowsOfUser(ratings, reqs[r].uid)[i])

\* C7: a user registers and receives token T; POST /ratings of tmdb_id 42 rated 7
\* with T and then GET /ratings returns exactly one row, rated 7; after DELETE
\* /ratings/42 with T, GET /ratings returns the empty list.  For any user, GET
\* /ratings returns exactly the rating rows stored for that user.
C7_Scenario ==
    /\ []ScenarioOutcome
    /\ [][\A r \in Slots : GetReturnsOwnRows(r)]_vars

\* C7's case: the scenario has run to its end, and bob has a rating stored
C7_Witness ==
    /\ Len(client.seen) = 5
    /\ Len(client.seen[3].body) = 1
    /\ Len(RowsOfUser(ratings, 1)) > 0

---------------------------------------------------------------------------
(* Failing store calls *)

\* the gateway answers the store call that request r waits for in a failure mode
GatewayFails(r, mode) ==
    /\ reqs[r].pc \in FetchPcs \cup ExecPcs
    /\ mode \in FailureModes
    /\ reqs' = [reqs EXCEPT ![r].pc = "failed", ![r].at = reqs[r].pc, ![r].reply = mode]
    /\ Silent
    /\ UNCHANGED <<storeVars, now>>
    /\ UNCHANGED <<tkVars, pwVars>>

\* DB.exec or DB.fetch raises in request r: register catches the exception and
\* answers 500 "Registration failed: ...", everywhere else it reaches the global
\* exception handler, which answers 500
StoreRaises(r) ==
    /\ reqs[r].pc = "failed" /\ Raises(reqs[r])
    /\ IF reqs[r].kind = "register"
       THEN Respond(r, 500, "Registration failed", <<>>)
       ELSE Respond(r, 500, IF reqs[r].reply = "http" THEN "DB error" ELSE "DB exec error",
                    <<>>)
    /\ UNCHANGED <<storeVars, now>>
    /\ UNCHANGED <<tkVars, pwVars>>

---------------------------------------------------------------------------
(* Specification SpecStore: every endpoint that calls the store, one       *)
(* request at a time, with store calls that fail.                          *)

StoreRegisterArgs ==
    {[NoArgs EXCEPT !.username = u, !.password = <<"p">>] : u \in {"alice", "carol"}}
StoreLoginArgs ==
    {[NoArgs EXCEPT !.username = "alice", !.password = p] : p \in AppPasswords}
StoreKinds == AuthKinds \ {"movies"}

NextStore ==
    \/ \E r \in AuthSlots, k \in StoreKinds, h \in ValidHeaders :
           \E a \in AuthArgs(k) : Submit(r, k, h, a)
    \/ \E r \in AuthSlots, a \in StoreRegisterArgs : SubmitOpen(r, "register", a)
    \/ \E r \in AuthSlots, a \in StoreLoginArgs : SubmitOpen(r, "login", a)
    \/ \E r \in AuthSlots, mode \in FailureModes : GatewayFails(r, mode)
    \/ \E r \in AuthSlots : StoreRaises(r)
    \/ \E r \in AuthSlots : register_check(r)
    \/ \E r \in AuthSlots : register_write(r, AppSalt)
    \/ \E r \in AuthSlots : register_reread(r)
    \/ \E r \in AuthSlots : login(r)
    \/ \E r \in AuthSlots : get_user(r)
    \/ \E r \in AuthSlots : me(r)
    \/ \E r \in AuthSlots : update_profile(r)
    \/ \E r \in AuthSlots : stats(r)
    \/ \E r \in AuthSlots : export_data(r)
    \/ \E r \in AuthSlots : get_ratings(r)
    \/ \E r \in AuthSlots : save_rating_check(r)
    \/ \E r \in AuthSlots : save_rating_write(r)
    \/ \E r \in AuthSlots : save_rating_reread(r)
    \/ \E r \in AuthSlots : delete_rating(r)
    \/ \E r \in AuthSlots : get_watchlist(r)
    \/ \E r \in AuthSlots : add_to_watchlist_check(r)
    \/ \E r \in AuthSlots : add_to_watchlist_write(r)
    \/ \E r \in AuthSlots : remove_from_watchlist(r)
    \/ \E r \in AuthSlots : check_watchlist(r)

SpecStore == InitApp(TwoUsers) /\ [][NextStore]_vars

\* every store call that failed raises in DB.exec or DB.fetch
FailedCallsRaise == \A r \in Slots : reqs[r].pc = "failed" => Raises(reqs[r])

\* a request of which a store call failed is answered 500
FailedRequestGets500(r) ==
    (Responds(r) /\ reqs[r].reply # "ok") => resp'.status = 500

\* C11: whenever a store call of a handler fails (the gateway answers non-200, or
\* the body carries an error entry for the statement), in DB.exec or in DB.fetch,
\* the call raises and the request ends in HTTP 500; a failed call is never taken
\* for a successful call that returned no rows.
C11_StoreFailuresPropagate ==
    /\ []FailedCallsRaise
    /\ [][\A r \in Slots : FailedRequestGets500(r)]_vars

---------------------------------------------------------------------------
(* Interleaved writes to one row *)

\* a POST /ratings that has passed get_user answers 200 with the row that ratings
\* holds for its (user_id, tmdb_id)
UpsertReturnsRow(r) ==
    (/\ Responds(r) /\ reqs[r].kind = "save_rating"
     /\ reqs[r].pc \in {"check", "write", "reread"})
        => /\ resp'.status = 200
           /\ Len(RowsOf(ratings', reqs[r].uid, reqs[r].args.tmdb_id)) = 1
           /\ resp'.body = RowsOf(ratings', reqs[r].uid, reqs[r].args.tmdb_id)

\* C12: every authenticated, schema-valid POST /ratings, under any interleaving with
\* other POST /ratings and DELETE /ratings requests for the same (user, tmdb_id),
\* ends by returning the stored row for that (user, tmdb_id), never in an error.
C12_UpsertReturnsRow == [][\A r \in Slots : UpsertReturnsRow(r)]_vars

\* a POST /watchlist that has passed get_user either creates the entry and answers
\* 200, or leaves the table as it is and answers 400 "Already in watchlist"; one
\* row exists for its (user_id, tmdb_id) afterwards
DuplicateNeverReachesStore(r) ==
    (/\ Responds(r) /\ reqs[r].kind = "add_to_watchlist"
     /\ reqs[r].pc \in {"check", "write"})
        => /\ IF watchlist' # watchlist
              THEN resp'.status = 200
              ELSE resp'.status = 400 /\ resp'.detail = "Already in watchlist"
           /\ Len(RowsOf(watchlist', reqs[r].uid, reqs[r].args.tmdb_id)) = 1

\* C13: for any interleaving of POST /watchlist requests for the same (user,
\* tmdb_id), no request issues an INSERT that UNIQUE(user_id, tmdb_id) rejects;
\* every request that does not create the entry ends in the 400 conflict response,
\* and exactly one row exists afterwards.
C13_DuplicateNeverReachesStore == [][\A r \in Slots : DuplicateNeverReachesStore(r)]_vars

---------------------------------------------------------------------------
(* Specification SpecStats: POST /ratings, DELETE /ratings/{tmdb_id} and   *)
(* GET /ratings/stats of alice and bob, one request at a time.             *)

\* the POSTs of SpecStats: without year, genres and media_type; of a tv title
\* with two genres; of a title of another media type
StatsArgs ==
    {[NoArgs EXCEPT !.tmdb_id = 42, !.user_rating = 7, !.title = "X"],
     [NoArgs EXCEPT !.tmdb_id = 42, !.user_rating = 3, !.title = "X", !.year = 1999,
                    !.genres = <<"D", ",", " ", "C">>, !.media_type = "tv"],
     [NoArgs EXCEPT !.tmdb_id = 43, !.user_rating = 7, !.title = "Y", !.year = 1999,
                    !.genres = <<"C">>, !.media_type = "tv"],
     [NoArgs EXCEPT !.tmdb_id = 43, !.user_rating = 10, !.title = "Y", !.year = 2001,
                    !.genres = <<"C", ",", "D">>, !.media_type = "anime"]}

NextStats ==
    \/ \E r \in AuthSlots, h \in ValidHeaders, a \in StatsArgs : Submit(r, "save_rating", h, a)
    \/ \E r \in AuthSlots, h \in ValidHeaders, a \in TmdbArgs : Submit(r, "delete_rating", h, a)
    \/ \E r \in AuthSlots, h \in ValidHeaders : Submit(r, "stats", h, NoArgs)
    \/ \E r \in AuthSlots : get_user(r)
    \/ \E r \in AuthSlots : save_rating_check(r)
    \/ \E r \in AuthSlots : save_rating_write(r)
    \/ \E r \in AuthSlots : save_rating_reread(r)
    \/ \E r \in AuthSlots : delete_rating(r)
    \/ \E r \in AuthSlots : stats(r)

SpecStats == InitApp(TwoUsers) /\ [][NextStats]_vars

\* the zero-filled aggregates
ZeroFilled ==
    [total |-> 0, average |-> 0, max |-> 0, min |-> 0,
     distribution |->
         [k \in {<<"1">>, <<"2">>, <<"3">>, <<"4">>, <<"5">>, <<"6">>, <<"7">>, <<"8">>,
                 <<"9">>, <<"1", "0">>} |-> 0],
     genres |-> <<>>, by_type |-> [movie |-> 0, tv |-> 0], by_year |-> <<>>]

\* a GET /ratings/stats of a user without rating rows answers 200 with ZeroFilled
StatsZeroFilled(r) ==
    (/\ Responds(r) /\ reqs[r].kind = "stats" /\ reqs[r].pc = "fetch"
     /\ RowsOfUser(ratings, reqs[r].uid) = <<>>)
        => resp'.status = 200 /\ resp'.body = <<ZeroFilled>>

\* C14: GET /ratings/stats for a user with zero rating rows (never rated, or all
\* ratings deleted again) returns zero-filled aggregates, not an error: total,
\* average, max and min 0, the ten keys '1'..'10' of the distribution mapped to 0,
\* no genres, by_type {movie: 0, tv: 0}, no by_year.
C14_StatsZeroFilled == [][\A r \in Slots : StatsZeroFilled(r)]_vars

\* C14's case: stats answered a user who has no rating row, while the other user
\* has some
C14_Witness ==
    /\ resp.req.kind = "stats" /\ resp.status = 200
    /\ RowsOfUser(ratings, resp.req.uid) = <<>>
    /\ ratings # <<>>
    /\ resp.body[1].total = 0

---------------------------------------------------------------------------
(* Specification SpecIsolation: the endpoints that read or write ratings,  *)
(* watchlist entries and the profile, called by alice and bob in any       *)
(* order, one request at a time.                                           *)

IsolationKinds == AuthKinds \ {"movies"}
IsolationRatingArgs ==
    {[NoArgs EXCEPT !.tmdb_id = 42, !.user_rating = x, !.title = "X"] : x \in Scores}
IsolationWatchlistArgs ==
    {[NoArgs EXCEPT !.tmdb_id = 42, !.title = t] : t \in Titles}

\* the arguments that the model sends to an endpoint of SpecIsolation
IsolationArgs(kind) ==
    CASE kind = "save_rating" -> IsolationRatingArgs
      [] kind = "add_to_watchlist" -> IsolationWatchlistArgs
      [] OTHER -> AuthArgs(kind)

NextIsolation ==
    \/ \E r \in AuthSlots, k \in IsolationKinds, h \in ValidHeaders :
           \E a \in IsolationArgs(k) : Submit(r, k, h, a)
    \/ \E r \in AuthSlots : get_user(r)
    \/ \E r \in AuthSlots : me(r)
    \/ \E r \in AuthSlots : update_profile(r)
    \/ \E r \in AuthSlots : stats(r)
    \/ \E r \in AuthSlots : export_data(r)
    \/ \E r \in AuthSlots : get_ratings(r)
    \/ \E r \in AuthSlots : save_rating_check(r)
    \/ \E r \in AuthSlots : save_rating_write(r)
    \/ \E r \in AuthSlots : save_rating_reread(r)
    \/ \E r \in AuthSlots : delete_rating(r)
    \/ \E r \in AuthSlots : get_watchlist(r)
    \/ \E r \in AuthSlots : add_to_watchlist_check(r)
    \/ \E r \in AuthSlots : add_to_watchlist_write(r)
    \/ \E r \in AuthSlots : remove_from_watchlist(r)
    \/ \E r \in AuthSlots : check_watchlist(r)

SpecIsolation == InitApp(TwoUsers) /\ [][NextIsolation]_vars

\* the user that a bearer token was made for
TokenUser(header) == CHOOSE id \in {1, 2} : header = Bearer(TokenOf(id, IntTimestamp(T0)))

\* rows, as GET /ratings lists them
ListedRows(rows) == [i \in DOMAIN rows |-> Listed(rows[i])]

\* the response to a request made with user A's token is made of A's rows and of
\* A's row of users, as they are stored, and of nothing else
ReadsOwnRows(r) ==
    (Responds(r) /\ reqs[r].kind \in IsolationKinds /\ resp'.status = 200) =>
        LET A == TokenUser(reqs[r].header)
            mine == RowsOfUser(ratings', A)
            listed == RowsOfUser(watchlist', A)
            kind == reqs[r].kind
            b == resp'.body[1]
        IN  /\ kind = "me" => b.id = A /\ b.username = users[A].username
                                   /\ b.display_name = users[A].display_name
            /\ kind = "get_ratings" => resp'.body = ListedRows(mine)
            /\ kind = "save_rating" => b.user_id = A /\ b \in Range(mine)
            /\ kind = "stats" => b.total = Len(mine)
            /\ kind = "export_data" => /\ b.user.id = A /\ b.user.username = users[A].username
                                       /\ b.total_ratings = Len(mine)
                                       /\ b.ratings = ListedRows(mine)
            /\ kind = "get_watchlist" => b.items = listed
            /\ kind = "check_watchlist" => b.in_watchlist = (listed # <<>>)

\* the users whose ratings, watchlist entries or row of users a step changes
Changed ==
    {u \in DOMAIN users :
        \/ RowsOfUser(ratings', u) # RowsOfUser(ratings, u)
        \/ RowsOfUser(watchlist', u) # RowsOfUser(watchlist, u)
        \/ users'[u] # users[u]}

\* a step changes the rows of a user only as the write of a request made with that
\* user's token; the username, password and email of no user change
WritesOwnRows ==
    /\ \A u \in Changed :
           \E r \in Slots : /\ reqs[r].pc = "write" /\ reqs[r].kind \in IsolationKinds
                            /\ TokenUser(reqs[r].header) = u
    /\ \A u \in DOMAIN users :
           users'[u] = [users[u] EXCEPT !.display_name = users'[u].display_name]

\* C15: a request made with user A's token reads, creates, updates or deletes only
\* ratings and watchlist rows whose user_id is A, and update_profile changes only
\* A's display name; the rows of every other user B are left unchanged and never
\* appear in A's responses.
C15_Isolation == [][WritesOwnRows /\ \A r \in Slots : ReadsOwnRows(r)]_vars

\* C15's case: a DELETE /ratings/42 made with one user's token was answered and
\* the other user's rating of 42 is still stored
C15_Witness ==
    /\ resp.req.kind = "delete_rating" /\ resp.status = 200
    /\ RowsOf(ratings, resp.req.uid, 42) = <<>>
    /\ \E i \in DOMAIN ratings : ratings[i].user_id # resp.req.uid /\ ratings[i].tmdb_id = 42

===========================================================================
